---- MODULE Spec2Model ----
(***************************************************************************)
(* A model of the MuZero orchestration of src/muzero.py and of the         *)
(* trajectory and replay-buffer code of src/games/game.py.                 *)
(*                                                                         *)
(* Process 0 is the main thread of muzero(): it publishes the initial      *)
(* network, plays one game (run_selfplay_once), starts the self-play       *)
(* threads 1..NumActors (run_selfplay), waits for the buffer to fill and   *)
(* then runs train_network.                                                *)
(*                                                                         *)
(* play_game (src/muzero.py) fetches the current observation with          *)
(* game.make_image(-1); the Game of src/games/game.py has one observation  *)
(* accessor, get_observation_from_index, and that is the one modelled.     *)
(* ReplayBuffer.save_game is one deque.append, which CPython runs as one   *)
(* atomic step.  Every episode of a run ends after the same number of      *)
(* environment steps (horizon), chosen when the run starts.                *)
(*                                                                         *)
(* Numbers are integers.  A value that the code divides (a child-visit     *)
(* fraction) is kept as a pair <<numerator, denominator>>.  Python's None  *)
(* is the empty sequence and a present value x the one-element <<x>>.      *)
(***************************************************************************)
EXTENDS Integers, Sequences, FiniteSets, TLC

(* ------------------------------ bounds --------------------------------- *)
\* config.num_actors: the self-play threads started by muzero()
NumActors == 2
\* the episodes (Game objects) created in one run, over all processes
MaxGames == 11
\* config.max_moves
MaxMoves == 3
\* config.training_steps
TrainingSteps == 3
\* config.checkpoint_interval
CheckpointInterval == 2
\* config.batch_size
BatchSize == 1
\* config.num_unroll_steps
NumUnrollSteps == 2
\* config.td_steps
TdSteps == 1
\* config.num_simulations
NumSimulations == 2
\* config.action_space_size
ActionSpaceSize == 1
\* config.discount, an integer here
Discount == 1

(* --------------------------- program constant -------------------------- *)
\* the fill level muzero() waits for before it trains
FillThreshold == 10

(* ------------------------------ helpers -------------------------------- *)
Range(s) == {s[i] : i \in 1..Len(s)}

Min(a, b) == IF a < b THEN a ELSE b

\* Python's s[lo:hi] for 0 <= lo, hi (0-based, hi exclusive, clamped to len(s))
Slice(s, lo, hi) ==
  LET h == Min(hi, Len(s))
  IN  IF lo >= h THEN <<>> ELSE SubSeq(s, lo + 1, h)

\* the last n elements of s
LastN(s, n) == SubSeq(s, Len(s) - n + 1, Len(s))

RECURSIVE Pow(_, _)
Pow(b, n) == IF n = 0 THEN 1 ELSE b * Pow(b, n - 1)

None == <<>>

Some(x) == <<x>>

Procs == 0..NumActors

Actors == 1..NumActors

Actions == 0..(ActionSpaceSize - 1)

(* ------------------------- Game (src/games/game.py) -------------------- *)
\* Game.__init__: an empty trajectory.  env is the number of steps the
\* environment has taken since its last reset; action_space_size is the
\* environment's.
NewGame(discount) ==
  [observations |-> <<>>, history |-> <<>>, rewards |-> <<>>,
   child_visits |-> <<>>, root_values |-> <<>>,
   discount |-> discount, action_space_size |-> ActionSpaceSize,
   done |-> FALSE, env |-> 0]

\* Game.terminal
terminal(g) == g.done

\* Game.legal_actions
legal_actions(g) == 0..(g.action_space_size - 1)

\* Environment.step on an environment that ends its episode after h steps:
\* the observation is named by the step count, the reward is 1 per step.
EnvStep(g, h) ==
  [observation |-> g.env + 1, reward |-> 1, done |-> (g.env + 1 >= h)]

\* Game.reset: the environment's initial observation
ResetObservation == 0

\* Game.apply
apply(g, action, h) ==
  LET r == EnvStep(g, h)
      observation == IF r.done THEN ResetObservation ELSE r.observation
  IN  [g EXCEPT !.done = r.done,
                !.env = IF r.done THEN 0 ELSE g.env + 1,
                !.observations = Append(@, observation),
                !.rewards = Append(@, r.reward),
                !.history = Append(@, action)]

\* A denominator that counts the children instead of their visits
CountChildren(root) == Cardinality(DOMAIN root.visits)

\* A searched root as store_search_statistics reads it: the visit count of each
\* child and root.value().
SumVisits(root) ==
  LET RECURSIVE SumOver(_)
      SumOver(S) == IF S = {} THEN 0
                    ELSE LET a == CHOOSE x \in S : TRUE
                         IN  root.visits[a] + SumOver(S \ {a})
  IN  SumOver(DOMAIN root.visits)

\* Game.store_search_statistics
store_search_statistics(g, root) ==
  LET sum_visits == SumVisits(root)
      Entry(a) == IF a \in DOMAIN root.visits
                  THEN <<root.visits[a], sum_visits>> ELSE <<0, 1>>
  IN  [g EXCEPT !.child_visits =
                   Append(@, [i \in 1..Cardinality(legal_actions(g)) |-> Entry(i - 1)]),
                !.root_values = Append(@, root.value)]

\* A fetch that records an observation on every call, not only on the first
ObservationFetchedAlways(g) ==
  [g EXCEPT !.observations = Append(@, ResetObservation),
            !.rewards = Append(@, 0),
            !.history = Append(@, 0),
            !.env = 0]

\* Game.get_observation_from_index, the state change: the first fetch on an
\* empty trajectory resets the environment and records the observation with a
\* reward 0.0 and an action 0.
ObservationFetched(g) ==
  IF g.observations = <<>>
  THEN [g EXCEPT !.observations = Append(@, ResetObservation),
                 !.rewards = Append(@, 0),
                 !.history = Append(@, 0),
                 !.env = 0]
  ELSE g

\* Python's s[i]: a negative i counts from the end
Index(s, i) == IF i < 0 THEN s[Len(s) + i + 1] ELSE s[i + 1]

\* Game.get_observation_from_index, the value returned
get_observation_from_index(g, state_index) ==
  Index(ObservationFetched(g).observations, state_index)

\* Game.make_target, the bootstrap part of the value
BootstrapValue(g, current_index, td_steps) ==
  LET bootstrap_index == current_index + td_steps
  IN  IF bootstrap_index < Len(g.root_values)
      THEN g.root_values[bootstrap_index + 1] * Pow(g.discount, td_steps)
      ELSE 0

\* Game.make_target, the loop "for i, reward in enumerate(...): value += ..."
RECURSIVE AddRewards(_, _, _, _)
AddRewards(value, rs, i, discount) ==
  IF rs = <<>> THEN value
  ELSE AddRewards(value + Head(rs) * Pow(discount, i), Tail(rs), i + 1, discount)

\* A value that sums the rewards from the position after current_index
TargetValueShifted(g, current_index, td_steps) ==
  AddRewards(BootstrapValue(g, current_index, td_steps),
             Slice(g.rewards, current_index + 1, current_index + td_steps + 1),
             0, g.discount)

\* Game.make_target, the value of one position
TargetValue(g, current_index, td_steps) ==
  AddRewards(BootstrapValue(g, current_index, td_steps),
             Slice(g.rewards, current_index, current_index + td_steps),
             0, g.discount)

\* Game.make_target, last_reward of one position
LastReward(g, current_index) ==
  IF current_index > 0 /\ current_index <= Len(g.rewards)
  THEN Some(g.rewards[current_index])
  ELSE None

\* An absorbing tuple that keeps the computed value instead of 0
AbsorbingTargetKeepsValue(value, last_reward) == <<value, last_reward, <<>>>>

\* Game.make_target, the tuple of a position past the end of the game
AbsorbingTarget(value, last_reward) == <<0, last_reward, <<>>>>

\* Game.make_target, whether building the tuple of a position raises
\* IndexError (child_visits shorter than root_values)
TargetFails(g, current_index) ==
  /\ current_index < Len(g.root_values)
  /\ current_index >= Len(g.child_visits)

\* Game.make_target, the tuple of one position
TargetAt(g, current_index, td_steps) ==
  LET value == TargetValue(g, current_index, td_steps)
      last_reward == LastReward(g, current_index)
  IN  IF current_index < Len(g.root_values)
      THEN <<value, last_reward, g.child_visits[current_index + 1]>>
      ELSE AbsorbingTarget(value, last_reward)

\* Game.make_target: the list of tuples, or the failure of the call
make_target(g, state_index, num_unroll_steps, td_steps) ==
  LET indices == state_index..(state_index + num_unroll_steps)
  IN  IF \E c \in indices : TargetFails(g, c)
      THEN [failed |-> TRUE, targets |-> <<>>]
      ELSE [failed |-> FALSE,
            targets |-> [k \in 1..(num_unroll_steps + 1) |->
                           TargetAt(g, state_index + k - 1, td_steps)]]

(* --------------------- ReplayBuffer (src/games/game.py) ---------------- *)
\* A bounded append that refuses the new game when full instead of evicting
DequeAppendKeepOldest(buffer, window_size, g) ==
  IF Len(buffer) >= window_size THEN buffer ELSE Append(buffer, g)

\* An append that is not atomic: two writers that read the same length write
\* the same slot, and the later game replaces the earlier one
DequeAppendRacy(buffer, window_size, g) ==
  IF buffer # <<>> /\ buffer[Len(buffer)][1] # g[1]
  THEN [buffer EXCEPT ![Len(buffer)] = g]
  ELSE Append(buffer, g)

\* deque(maxlen = window_size).append: a full deque drops its left end
DequeAppend(buffer, window_size, g) ==
  IF window_size = 0 THEN buffer
  ELSE IF Len(buffer) >= window_size THEN Append(Tail(buffer), g)
  ELSE Append(buffer, g)

\* ReplayBuffer.sample_position fails (randrange(0)) on a game with no history
CanSamplePosition(g) == Len(g.history) > 0

\* An item whose actions start one position late
BatchItemNextActions(g, i, num_unroll_steps, td_steps) ==
  [observation |-> get_observation_from_index(g, i),
   actions |-> Slice(ObservationFetched(g).history, i + 1, i + 1 + num_unroll_steps),
   target |-> make_target(ObservationFetched(g), i, num_unroll_steps, td_steps)]

\* ReplayBuffer.sample_batch, one item: (observation, actions, targets)
BatchItem(g, i, num_unroll_steps, td_steps) ==
  [observation |-> get_observation_from_index(g, i),
   actions |-> Slice(ObservationFetched(g).history, i, i + num_unroll_steps),
   target |-> make_target(ObservationFetched(g), i, num_unroll_steps, td_steps)]

(* ------------------ SharedStorage (storage.py, not in src) ------------- *)
\* No network object: what a reader holds when nothing was published
NoNet == "none"

\* SharedStorage.__init__: no snapshot yet
EmptyStorage == [step |-> 0, net |-> NoNet]

\* SharedStorage.save_network(step, network): one pointer swap that keeps the
\* reference to the network object it is given
save_network(st, step, n) == [step |-> step, net |-> n]

\* SharedStorage.latest_network(): the reference last published
latest_network(st) == st.net

(* ---------------------- search (mcts.py, not in src) ------------------- *)
\* root.value() values a search may end with
SearchValues == {2}

\* The roots run_mcts may leave behind: every legal action has a child, and
\* the children's visit counts sum to num_simulations.
SearchOutcomes ==
  {[visits |-> v, value |-> x] :
     v \in {f \in [Actions -> 0..NumSimulations] :
              SumVisits([visits |-> f]) = NumSimulations},
     x \in SearchValues}

\* select_action: an action whose child was visited
select_action(root) == {a \in DOMAIN root.visits : root.visits[a] > 0}

(* ------------------------------- state --------------------------------- *)
VARIABLES
  window_size,  \* ReplayBuffer.window_size, fixed at construction
  batch_size,   \* ReplayBuffer.batch_size, fixed at construction
  horizon,      \* the number of steps after which the environment reports done
  pc,           \* where each process stands
  net,          \* the local variable "network" of each self-play process
  game,         \* the Game each self-play process is playing (its identity)
  games,        \* the heap of Game objects, by identity <<process, episode>>
  buffer,       \* ReplayBuffer.buffer: identities of the games appended
  saved,        \* history: every identity passed to save_game, in order
  storage,      \* SharedStorage: the latest snapshot and its step key
  published,    \* history: the step keys passed to save_network, in order
  networks,     \* the heap of Network objects: two weight groups, step counter
  t_net,        \* train_network's local variable "network"
  t_i,          \* train_network's loop variable i
  game_pos,     \* sample_batch's local list game_pos
  batch,        \* the batch handed to update_weights
  tg,           \* make_target called alone: the trajectory
  tg_args,      \* make_target called alone: the arguments
  tg_out        \* make_target called alone: the result (None before the call)

\* one search of play_game, followed step by step
VARIABLES
  s_pc,           \* where play_game stands in its loop body
  s_game,         \* the Game being played
  s_num_sims,     \* config.num_simulations
  s_max_moves,    \* config.max_moves
  tree,           \* the Node objects of the search, by their path from the root
  s_lists,        \* the heap of list objects held by ActionHistory objects
  action_history, \* run_mcts's argument: the ActionHistory of the game
  history,        \* run_mcts's local "history": the clone of the simulation
  node,           \* run_mcts's local "node" (its path from the root)
  search_path,    \* run_mcts's local "search_path"
  s_done          \* the simulations completed in the current search

mainvars == <<window_size, batch_size, horizon, pc, net, game, games, buffer, saved, storage,
              published, networks, t_net, t_i, game_pos, batch>>

tgvars == <<tg, tg_args, tg_out>>

svars == <<s_pc, s_game, s_num_sims, s_max_moves, tree, s_lists, action_history, history,
           node, search_path, s_done>>

vars == <<window_size, batch_size, horizon, pc, net, game, games, buffer, saved, storage,
          published, networks, t_net, t_i, game_pos, batch, tg, tg_args, tg_out,
          s_pc, s_game, s_num_sims, s_max_moves, tree, s_lists, action_history, history,
          node, search_path, s_done>>

\* config.window_size of the runs explored: below the fill level and at it
WindowSizes == {1, FillThreshold}

\* episode lengths of the environment in the runs explored: done at the first
\* step, and not done before max_moves
Horizons == {1, MaxMoves}

NoGame == <<>>

\* the one Network object muzero() constructs
TheNet == "n1"

\* Network.__init__
NewNetwork == [w1 |-> 0, w2 |-> 0, training_steps |-> 0]

\* A main thread that goes to run_selfplay_once without publishing first
MainStartPcSelfPlay == "latest"

\* muzero(): the statement the main thread runs first once storage, buffer and
\* network are constructed
MainStartPc == "save0"

\* play_game: while not game.terminal() and len(game.history) < max_moves
LoopCond(g, max_moves) == ~terminal(g) /\ Len(g.history) < max_moves

\* A loop that stops one move short of max_moves
PlayLoopCondShort(g) == ~terminal(g) /\ Len(g.history) < MaxMoves - 1

\* play_game: the loop condition
PlayLoopCond(g) == LoopCond(g, MaxMoves)

\* A loop that publishes before every iteration
TrainPcAtEveryStep(i) == IF i < TrainingSteps THEN "ckpt" ELSE "final"

\* train_network: where the loop goes at index i
TrainPcAt(i) ==
  IF i < TrainingSteps
  THEN IF i % CheckpointInterval = 0 THEN "ckpt" ELSE "sample"
  ELSE "final"

\* A final publish keyed by the last loop index instead of training_steps
FinalStepLastIndex == TrainingSteps - 1

\* train_network: the step key of the publish after the loop
FinalStep == TrainingSteps

InitTg ==
  /\ tg = NewGame(Discount)
  /\ tg_args = [state_index |-> 0, num_unroll_steps |-> 0, td_steps |-> 0]
  /\ tg_out = None

\* no search is being followed
InitNoSearch ==
  /\ s_pc = "off"
  /\ s_game = NewGame(Discount)
  /\ s_num_sims = 0
  /\ s_max_moves = 0
  /\ tree = <<>>
  /\ s_lists = <<>>
  /\ action_history = None
  /\ history = None
  /\ node = <<>>
  /\ search_path = <<>>
  /\ s_done = 0

InitMain(ws, h) ==
  /\ window_size = ws
  /\ batch_size = BatchSize
  /\ horizon = h
  /\ pc = [p \in Procs |-> IF p = 0 THEN MainStartPc ELSE "idle"]
  /\ net = [p \in Procs |-> NoNet]
  /\ game = [p \in Procs |-> NoGame]
  /\ games = <<>>
  /\ buffer = <<>>
  /\ saved = <<>>
  /\ storage = EmptyStorage
  /\ published = <<>>
  /\ networks = (TheNet :> NewNetwork)
  /\ t_net = NoNet
  /\ t_i = 0
  /\ game_pos = <<>>
  /\ batch = <<>>

Init ==
  /\ \E ws \in WindowSizes, h \in Horizons : InitMain(ws, h)
  /\ InitTg
  /\ InitNoSearch

(* ----------------------- self-play (src/muzero.py) --------------------- *)
\* run_selfplay / run_selfplay_once: network = storage.latest_network(), and
\* play_game's first statement, the construction of the Game
FetchNetwork(p) ==
  /\ pc[p] = "latest"
  /\ Cardinality(DOMAIN games) < MaxGames
  /\ LET n == Cardinality({id \in DOMAIN games : id[1] = p}) + 1
     IN  /\ game' = [game EXCEPT ![p] = <<p, n>>]
         /\ games' = games @@ (<<p, n>> :> NewGame(Discount))
  /\ net' = [net EXCEPT ![p] = latest_network(storage)]
  /\ pc' = [pc EXCEPT ![p] = "play"]
  /\ UNCHANGED <<window_size, batch_size, horizon, buffer, saved, storage, published,
                 networks, t_net, t_i, game_pos, batch>>
  /\ UNCHANGED <<tgvars, svars>>

\* play_game: one iteration of the loop: the observation is fetched, the search
\* runs on the network held, the selected action is applied and the search
\* statistics are stored
PlayMove(p) ==
  /\ pc[p] = "play"
  /\ net[p] # NoNet
  /\ PlayLoopCond(games[game[p]])
  /\ \E root \in SearchOutcomes :
       \E action \in select_action(root) :
         games' = [games EXCEPT ![game[p]] =
                     store_search_statistics(
                       apply(ObservationFetched(@), action, horizon), root)]
  /\ UNCHANGED <<window_size, batch_size, horizon, pc, net, game, buffer, saved, storage,
                 published, networks, t_net, t_i, game_pos, batch>>
  /\ UNCHANGED <<tgvars, svars>>

\* play_game returns once its loop condition is false, and the caller's
\* replay_buffer.save_game(game) appends it: deque.append is one atomic step
save_game(p) ==
  /\ pc[p] = "play"
  /\ net[p] # NoNet
  /\ ~PlayLoopCond(games[game[p]])
  /\ buffer' = DequeAppend(buffer, window_size, game[p])
  /\ saved' = Append(saved, game[p])
  /\ pc' = [pc EXCEPT ![p] = IF p = 0 THEN "spawn" ELSE "latest"]
  /\ UNCHANGED <<window_size, batch_size, horizon, net, game, games, storage, published,
                 networks, t_net, t_i, game_pos, batch>>
  /\ UNCHANGED <<tgvars, svars>>

(* ------------------------ muzero() (src/muzero.py) --------------------- *)
\* storage.save_network(0, network)
SaveNetwork0 ==
  /\ pc[0] = "save0"
  /\ storage' = save_network(storage, 0, TheNet)
  /\ published' = Append(published, 0)
  /\ pc' = [pc EXCEPT ![0] = "latest"]
  /\ UNCHANGED <<window_size, batch_size, horizon, net, game, games, buffer, saved,
                 networks, t_net, t_i, game_pos, batch>>
  /\ UNCHANGED <<tgvars, svars>>

\* for i in range(config.num_actors): Thread(target=run_selfplay, ...).start()
StartActor ==
  /\ pc[0] = "spawn"
  /\ LET idle == {a \in Actors : pc[a] = "idle"}
     IN  IF idle = {}
         THEN pc' = [pc EXCEPT ![0] = "wait"]
         ELSE LET a == CHOOSE x \in idle : \A y \in idle : x <= y
              IN  pc' = [pc EXCEPT ![a] = "latest",
                                   ![0] = IF idle = {a} THEN "wait" ELSE "spawn"]
  /\ UNCHANGED <<window_size, batch_size, horizon, net, game, games, buffer, saved, storage,
                 published, networks, t_net, t_i, game_pos, batch>>
  /\ UNCHANGED <<tgvars, svars>>

\* A wait that is over as soon as the buffer holds one game
WaitCondOneGame(b) == Len(b) < 1

\* A wait for one game more than the fill level
WaitCondOneMore(b) == Len(b) < FillThreshold + 1

\* muzero(): the condition of the wait loop, len(replay_buffer.buffer) < 10
WaitCond(b) == Len(b) < FillThreshold

\* while len(replay_buffer.buffer) < 10: pass, left once the level is reached,
\* and train_network's first statement network = storage.latest_network()
StartTraining ==
  /\ pc[0] = "wait"
  /\ ~WaitCond(buffer)
  /\ t_net' = latest_network(storage)
  /\ t_i' = 0
  /\ pc' = [pc EXCEPT ![0] = TrainPcAt(0)]
  /\ UNCHANGED <<window_size, batch_size, horizon, net, game, games, buffer, saved, storage,
                 published, networks, game_pos, batch>>
  /\ UNCHANGED <<tgvars, svars>>

(* --------------------- train_network (src/muzero.py) ------------------- *)
\* storage.save_network(i, network); save_checkpoints(storage.latest_network())
Checkpoint ==
  /\ pc[0] = "ckpt"
  /\ storage' = save_network(storage, t_i, t_net)
  /\ published' = Append(published, t_i)
  /\ pc' = [pc EXCEPT ![0] = "sample"]
  /\ UNCHANGED <<window_size, batch_size, horizon, net, game, games, buffer, saved,
                 networks, t_net, t_i, game_pos, batch>>
  /\ UNCHANGED <<tgvars, svars>>

\* sample_batch: games = [sample_game() ...]; game_pos = [(g, sample_position(g))]
\* choice() on an empty buffer and randrange(0) raise: train_network fails
SampleGames ==
  /\ pc[0] = "sample"
  /\ IF buffer = <<>>
     THEN /\ pc' = [pc EXCEPT ![0] = "failed"]
          /\ game_pos' = game_pos
     ELSE \E gs \in [1..batch_size -> Range(buffer)] :
            IF \E k \in 1..batch_size : ~CanSamplePosition(games[gs[k]])
            THEN /\ pc' = [pc EXCEPT ![0] = "failed"]
                 /\ game_pos' = game_pos
            ELSE \E ps \in [1..batch_size -> 0..MaxMoves] :
                   /\ \A k \in 1..batch_size : ps[k] < Len(games[gs[k]].history)
                   /\ game_pos' = [k \in 1..batch_size |-> <<gs[k], ps[k]>>]
                   /\ pc' = [pc EXCEPT ![0] = "build"]
  /\ UNCHANGED <<window_size, batch_size, horizon, net, game, games, buffer, saved, storage,
                 published, networks, t_net, t_i, batch>>
  /\ UNCHANGED <<tgvars, svars>>

\* sample_batch: the list of (get_observation_from_index, history slice,
\* make_target) over game_pos; get_observation_from_index may write the game
BuildBatch ==
  /\ pc[0] = "build"
  /\ batch' = [k \in 1..Len(game_pos) |->
                 BatchItem(games[game_pos[k][1]], game_pos[k][2],
                           NumUnrollSteps, TdSteps)]
  /\ games' = [id \in DOMAIN games |->
                 IF \E k \in 1..Len(game_pos) : game_pos[k][1] = id
                 THEN ObservationFetched(games[id]) ELSE games[id]]
  /\ game_pos' = <<>>
  /\ pc' = [pc EXCEPT ![0] = "update"]
  /\ UNCHANGED <<window_size, batch_size, horizon, net, game, buffer, saved, storage,
                 published, networks, t_net, t_i>>
  /\ UNCHANGED <<tgvars, svars>>

\* update_weights: the loss is computed from the batch and optimizer.minimize
\* starts assigning the network's variables in place (first group)
UpdateWeightsBegin ==
  /\ pc[0] = "update"
  /\ networks' = [networks EXCEPT ![t_net].w1 = @ + 1]
  /\ batch' = <<>>
  /\ pc' = [pc EXCEPT ![0] = "update2"]
  /\ UNCHANGED <<window_size, batch_size, horizon, net, game, games, buffer, saved, storage,
                 published, t_net, t_i, game_pos>>
  /\ UNCHANGED <<tgvars, svars>>

\* update_weights: the remaining variables are assigned, then
\* network.increment_training_steps(); the loop goes to its next index
UpdateWeightsEnd ==
  /\ pc[0] = "update2"
  /\ networks' = [networks EXCEPT ![t_net].w2 = @ + 1,
                                  ![t_net].training_steps = @ + 1]
  /\ t_i' = t_i + 1
  /\ pc' = [pc EXCEPT ![0] = TrainPcAt(t_i + 1)]
  /\ UNCHANGED <<window_size, batch_size, horizon, net, game, games, buffer, saved, storage,
                 published, t_net, game_pos, batch>>
  /\ UNCHANGED <<tgvars, svars>>

\* storage.save_network(config.training_steps, network), and muzero()'s
\* export_models(storage.latest_network())
FinalPublish ==
  /\ pc[0] = "final"
  /\ storage' = save_network(storage, FinalStep, t_net)
  /\ published' = Append(published, FinalStep)
  /\ pc' = [pc EXCEPT ![0] = "end"]
  /\ UNCHANGED <<window_size, batch_size, horizon, net, game, games, buffer, saved,
                 networks, t_net, t_i, game_pos, batch>>
  /\ UNCHANGED <<tgvars, svars>>

Next ==
  \/ \E p \in Procs : FetchNetwork(p)
  \/ \E p \in Procs : PlayMove(p)
  \/ \E p \in Procs : save_game(p)
  \/ SaveNetwork0
  \/ StartActor
  \/ StartTraining
  \/ Checkpoint
  \/ SampleGames
  \/ BuildBatch
  \/ UpdateWeightsBegin
  \/ UpdateWeightsEnd
  \/ FinalPublish

Spec == Init /\ [][Next]_vars

(* ------------------------- make_target called alone -------------------- *)
\* longest rewards list and longest root_values list of the trajectories tried
MaxRewards == 3

MaxRootValues == 4

\* largest discount, td_steps, num_unroll_steps and state_index tried
MaxDiscount == 2

MaxTdSteps == 2

MaxUnroll == 2

MaxIndex == 4

SeqsUpTo(S, n) == UNION {[1..k -> S] : k \in 0..n}

\* rewards and root values in tenths: 10 is the reward 1.0, 4 the value 0.4
RewardVals == {0, 10}

RootVals == {3, 4}

\* the root_values lists tried: all short lists, and the list 0.5, 0.4, 0.3, 0.2
RootValueSeqs == SeqsUpTo(RootVals, MaxRootValues) \cup {<<5, 4, 3, 2>>}

\* A trajectory as play_game and store_search_statistics leave it: child_visits
\* has one entry per root value (entry i is marked by i to tell entries apart).
Trajectory(rewards, root_values, discount) ==
  [NewGame(discount) EXCEPT
     !.rewards = rewards,
     !.history = [i \in 1..Len(rewards) |-> 0],
     !.observations = [i \in 1..Len(rewards) |-> i - 1],
     !.root_values = root_values,
     !.child_visits = [i \in 1..Len(root_values) |-> << <<i, i>> >>]]

InitTarget ==
  /\ InitMain(FillThreshold, MaxMoves)
  /\ \E rs \in SeqsUpTo(RewardVals, MaxRewards), rv \in RootValueSeqs,
        d \in 1..MaxDiscount :
       tg = Trajectory(rs, rv, d)
  /\ tg_args = [state_index |-> 0, num_unroll_steps |-> 0, td_steps |-> 0]
  /\ tg_out = None
  /\ InitNoSearch

\* One call game.make_target(state_index, num_unroll_steps, td_steps, to_play)
MakeTargetCall ==
  /\ tg_out = None
  /\ \E i \in 0..MaxIndex, u \in 0..MaxUnroll, td \in 0..MaxTdSteps :
       /\ tg_args' = [state_index |-> i, num_unroll_steps |-> u, td_steps |-> td]
       /\ tg_out' = Some(make_target(tg, i, u, td))
  /\ UNCHANGED tg
  /\ UNCHANGED mainvars
  /\ UNCHANGED svars

NextTarget == MakeTargetCall

SpecTarget == InitTarget /\ [][NextTarget]_vars

(* =============================== claims ================================ *)
\* the games whose episode is over: created, and no process is still in the
\* play_game call that owns them
Completed ==
  {id \in DOMAIN games : ~(\E p \in Procs : pc[p] = "play" /\ game[p] = id)}

\* C1: the buffer never holds more than window_size games, and it always holds
\* the last min(n, window_size) of the n games saved, in the order saved.
C1_BufferWindow ==
  /\ Len(buffer) <= window_size
  /\ buffer = LastN(saved, Min(Len(saved), window_size))

\* C1 witness: a save on a full buffer of ten has evicted the oldest game
C1_Evicted ==
  /\ window_size = FillThreshold
  /\ Len(saved) > window_size
  /\ buffer[1] = saved[2]

\* C2: while the capacity is not exceeded, the buffer holds exactly the games
\* of the completed episodes of all processes, each exactly once.
C2_NoLostAppend ==
  Len(saved) <= window_size =>
    /\ Range(buffer) = Completed
    /\ Len(buffer) = Cardinality(Completed)

\* C2 witness: the appends of two self-play threads interleave in the buffer
C2_Interleaved ==
  /\ Len(saved) <= window_size
  /\ \E i, j, k \in 1..Len(buffer) :
       /\ i < j /\ j < k
       /\ buffer[i][1] = 1 /\ buffer[j][1] = 2 /\ buffer[k][1] = 1

\* the value the claim gives for position i: the discounted root value td_steps
\* ahead if recorded, plus the rewards at i .. i+td_steps-1 that are recorded,
\* the j-th of them discounted j times
ClaimedValue(g, i, td) ==
  LET b == i + td
      Term(j) == g.rewards[i + j + 1] * Pow(g.discount, j)
      RECURSIVE SumTerms(_)
      SumTerms(S) == IF S = {} THEN 0
                     ELSE LET x == CHOOSE y \in S : TRUE
                          IN  Term(x) + SumTerms(S \ {x})
  IN  (IF b < Len(g.root_values)
       THEN g.root_values[b + 1] * Pow(g.discount, td) ELSE 0)
      + SumTerms({j \in 0..(td - 1) : i + j < Len(g.rewards)})

\* C3: the value of the k-th target of make_target, for a position
\* i = state_index + k below len(root_values), is the claimed value; for the
\* rewards 1,1,1 and root values 0.5,0.4,0.3,0.2 (discount 1, td_steps 1,
\* index 0) it is 1.4 at offset 0.
C3_TargetValue ==
  tg_out # None =>
    LET out == tg_out[1] IN
    ~out.failed =>
      /\ \A k \in 0..tg_args.num_unroll_steps :
           LET i == tg_args.state_index + k IN
           i < Len(tg.root_values) =>
             out.targets[k + 1][1] = ClaimedValue(tg, i, tg_args.td_steps)
      /\ ( /\ tg.rewards = <<10, 10, 10>>
           /\ tg.root_values = <<5, 4, 3, 2>>
           /\ tg.discount = 1
           /\ tg_args.td_steps = 1
           /\ tg_args.state_index = 0 ) => out.targets[1][1] = 14

\* C3 witness: make_target has returned for the example of the claim, with
\* later offsets unrolled too
C3_Example ==
  /\ tg_out # None
  /\ tg.rewards = <<10, 10, 10>>
  /\ tg.root_values = <<5, 4, 3, 2>>
  /\ tg.discount = 1
  /\ tg_args = [state_index |-> 0, num_unroll_steps |-> 2, td_steps |-> 1]
  /\ tg_out[1].targets[1][1] = 14

\* C4: make_target does not fail and returns num_unroll_steps + 1 tuples; the
\* tuple of every position i not below len(root_values) is (0, last_reward, [])
\* with last_reward = rewards[i-1] if 0 < i <= len(rewards), else None.
C4_AbsorbingTargets ==
  tg_out # None =>
    LET out == tg_out[1] IN
    /\ ~out.failed
    /\ Len(out.targets) = tg_args.num_unroll_steps + 1
    /\ \A k \in 0..tg_args.num_unroll_steps :
         LET i == tg_args.state_index + k IN
         i >= Len(tg.root_values) =>
           out.targets[k + 1] =
             <<0, IF 0 < i /\ i <= Len(tg.rewards) THEN <<tg.rewards[i]>> ELSE <<>>,
               <<>>>>

\* C4 witness: a call has unrolled past the end of a trajectory whose rewards
\* reach further than its root values, and past the rewards too
C4_PastTheEnd ==
  /\ tg_out # None
  /\ Len(tg.rewards) > Len(tg.root_values)
  /\ tg.rewards[Len(tg.rewards)] > 0
  /\ tg_args.state_index = Len(tg.root_values)
  /\ tg_args.state_index + tg_args.num_unroll_steps > Len(tg.rewards)

\* C5: at the end of every move of play_game the four per-move lists of the
\* trajectory have the same length.
C5_LengthsEqual ==
  \A id \in DOMAIN games :
    LET g == games[id] IN
    Len(g.root_values) > 0 =>
      /\ Len(g.rewards) = Len(g.history)
      /\ Len(g.history) = Len(g.child_visits)
      /\ Len(g.child_visits) = Len(g.root_values)

\* the episode of g is over: terminal, or max_moves reached
EpisodeOver(g) == terminal(g) \/ Len(g.history) >= MaxMoves

\* C6: every game in the buffer, and every game the training consumer has
\* sampled, belongs to an episode whose play_game loop has exited, and no
\* process is still playing it.
C6_OnlyCompleteVisible ==
  \A id \in Range(buffer) \cup {game_pos[k][1] : k \in 1..Len(game_pos)} :
    /\ EpisodeOver(games[id])
    /\ id \in Completed

\* C6 witness: the consumer has sampled from the buffer while a self-play
\* thread holds a partially written game
C6_SampledDuringPlay ==
  /\ game_pos # <<>>
  /\ \E p \in Actors :
       /\ pc[p] = "play"
       /\ games[game[p]].root_values # <<>>
       /\ PlayLoopCond(games[game[p]])

\* C7: once a game has been passed to save_game, no step changes any of its
\* sequences.
C7_SavedImmutable ==
  [][\A i \in 1..Len(saved) : games'[saved[i]] = games[saved[i]]]_vars

\* C7 witness: the consumer has built a batch from saved games while a thread
\* that saved a game before is writing its next one
C7_BatchBuilt ==
  /\ batch # <<>>
  /\ \E p \in Actors :
       /\ pc[p] = "play"
       /\ games[game[p]].root_values # <<>>
       /\ \E i \in 1..Len(saved) : saved[i][1] = p

\* C8: while a self-play process plays an episode, the parameters of the
\* network it obtained from the storage do not change, and they are never
\* partially updated.
C8_SnapshotImmutable ==
  [][\A p \in Procs :
       (pc[p] = "play" /\ pc'[p] = "play" /\ net[p] # NoNet) =>
         /\ networks'[net[p]] = networks[net[p]]
         /\ networks'[net[p]].w1 = networks'[net[p]].w2]_vars

\* C9 as stated: every published step key is strictly greater than the one
\* published before it.
C9_StrictlyIncreasing ==
  \A i \in 2..Len(published) : published[i] > published[i - 1]

\* C9 amended: the published step keys never decrease, and they strictly
\* increase from train_network's first publish on (the only repeat is that
\* first publish, which repeats the key of muzero()'s initial publish).
C9_NonDecreasing ==
  /\ \A i \in 2..Len(published) : published[i] >= published[i - 1]
  /\ \A i \in 3..Len(published) : published[i] > published[i - 1]

\* C9 witness: a whole run: initial, periodic and final publish are done
C9_RunPublished ==
  /\ pc[0] = "end"
  /\ Len(published) >= 4

\* C10: whenever a self-play read of the latest snapshot has happened (a
\* process has a Game, which it creates right after the read), a snapshot had
\* been published.
C10_PublishedBeforeRead ==
  (DOMAIN games # {} \/ \E p \in Procs : pc[p] = "play") => published # <<>>

\* C10 witness: after run_selfplay_once, a self-play thread has done its
\* first read
C10_ThreadHasRead ==
  /\ saved # <<>>
  /\ saved[1][1] = 0
  /\ \E p \in Actors : pc[p] = "play" /\ game[p] = <<p, 1>>

\* the positions of train_network, from its first statement to its return
TrainerPcs == {"ckpt", "sample", "build", "update", "update2", "final", "end"}

\* C11: train_network runs only once the buffer has held at least the
\* threshold of 10 games, and none of its sample_batch calls fails on an empty
\* buffer: each finds a non-empty buffer.
C11_TrainsOnFilledBuffer ==
  /\ pc[0] \in TrainerPcs => ~(Len(buffer) < 10)
  /\ pc[0] = "sample" => buffer # <<>>
  /\ pc[0] # "failed"

\* C11 witness: the consumer is in its second sample_batch while a self-play
\* thread is in the middle of an episode
C11_SamplingWhileWorkersRun ==
  /\ pc[0] = "sample"
  /\ t_i = 1
  /\ \E p \in Actors :
       /\ pc[p] = "play"
       /\ games[game[p]].root_values # <<>>
       /\ PlayLoopCond(games[game[p]])

(* --------- one play_game, its searches step by step (mcts.py) ---------- *)
\* largest config.num_simulations and largest action space followed
MaxSearchSims == 2

MaxActionSpace == 2

\* Node(prior): no visit, no value, no child, no hidden state
Node ==
  [visit_count |-> 0, value_sum |-> 0, reward |-> 0, children |-> {},
   hidden_state |-> None]

\* Node.expanded
expanded(n) == n.children # {}

\* Node.value; the inferences of a search all return the same value and the
\* reward 0, so the quotient is exact
node_value(n) == IF n.visit_count = 0 THEN 0 ELSE n.value_sum \div n.visit_count

\* the path of the root in the tree
RootPath == <<>>

\* expand_node(node, to_play, legal_actions, network_output): fails on a node
\* expanded before; else sets hidden_state and reward and creates one child per
\* legal action
expand_node(tr, path, legal, output) ==
  [failed |-> expanded(tr[path]),
   tree |-> [p \in DOMAIN tr \cup {Append(path, a) : a \in legal} |->
               IF p = path
               THEN [tr[p] EXCEPT !.children = legal,
                                  !.reward = output.reward,
                                  !.hidden_state = Some(output.hidden_state)]
               ELSE IF p \in DOMAIN tr THEN tr[p] ELSE Node]]

\* backpropagate(search_path, value, to_play, discount, min_max_stats), from
\* the leaf up to the root
RECURSIVE backpropagate(_, _, _, _)
backpropagate(tr, sp, v, discount) ==
  IF sp = <<>> THEN tr
  ELSE LET p == sp[Len(sp)]
           n == tr[p]
       IN  backpropagate(
             [tr EXCEPT ![p] = [n EXCEPT !.value_sum = @ + v,
                                         !.visit_count = @ + 1]],
             SubSeq(sp, 1, Len(sp) - 1), n.reward + discount * v, discount)

\* network.initial_inference / recurrent_inference: the outputs a search may
\* get; the hidden state is named by the depth of the node
Inferences(depth) ==
  {[value |-> v, reward |-> 0, hidden_state |-> depth] : v \in SearchValues}

\* the root as store_search_statistics and select_action read it
RootView(tr) ==
  [visits |-> [a \in tr[RootPath].children |-> tr[<<a>>].visit_count],
   value |-> node_value(tr[RootPath])]

\* the list objects: the game's own history list and the lists created by
\* ActionHistory.__init__ for game.action_history() and for clone()
GameList == "game.history"

AhList == "action_history.history"

SimList == "history.history"

\* the elements of the list object ref
Deref(lists, g, ref) == IF ref = GameList THEN g.history ELSE lists[ref]

\* A constructor that keeps the list it is given
ListShared(lists, g, src, new) == [ref |-> src, lists |-> lists]

\* list(history): a new list object (named new) with the elements of src
ListOf(lists, g, src, new) ==
  [ref |-> new, lists |-> (new :> Deref(lists, g, src)) @@ lists]

\* ActionHistory.__init__(history, action_space_size)
ActionHistory(lists, g, src, new, action_space_size) ==
  LET c == ListOf(lists, g, src, new)
  IN  [obj |-> [history |-> c.ref, action_space_size |-> action_space_size],
       lists |-> c.lists]

\* ActionHistory.clone
clone(lists, g, ah, new) ==
  ActionHistory(lists, g, ah.history, new, ah.action_space_size)

\* Game.action_history
game_action_history(lists, g, new) ==
  ActionHistory(lists, g, GameList, new, g.action_space_size)

\* ActionHistory.add_action: append to the list object the history holds
add_action(lists, g, ah, a) ==
  IF ah.history = GameList
  THEN [lists |-> lists, game |-> [g EXCEPT !.history = Append(@, a)]]
  ELSE [lists |-> [lists EXCEPT ![ah.history] = Append(@, a)], game |-> g]

\* An action space that leaves out the last action
action_space_short(ah) == 0..(ah.action_space_size - 2)

\* ActionHistory.action_space
action_space(ah) == 0..(ah.action_space_size - 1)

\* run_mcts: for _ in range(config.num_simulations)
SimulationsLeft(done, num_simulations) == done < num_simulations

\* A back-propagation at the root that visits nothing
NoSearchPath == <<>>

\* A back-propagation at the root that visits the root twice
RootSearchPathTwice == <<RootPath, RootPath>>

\* play_game: the search path [root] of the first backpropagate
RootSearchPath == <<RootPath>>

InitSearch ==
  /\ \E h \in Horizons : InitMain(FillThreshold, h)
  /\ InitTg
  /\ s_pc = "root"
  /\ \E n \in 1..MaxActionSpace :
       s_game = [NewGame(Discount) EXCEPT !.action_space_size = n]
  /\ s_num_sims \in 1..MaxSearchSims
  /\ s_max_moves \in 0..MaxMoves
  /\ tree = <<>>
  /\ s_lists = <<>>
  /\ action_history = None
  /\ history = None
  /\ node = <<>>
  /\ search_path = <<>>
  /\ s_done = 0

\* play_game, loop body up to the call of run_mcts: root = Node(0), the
\* observation fetch, initial_inference, expand_node, backpropagate([root]),
\* and the argument game.action_history()
SearchRoot ==
  /\ s_pc = "root"
  /\ LoopCond(s_game, s_max_moves)
  /\ LET g == ObservationFetched(s_game)
         ah == game_action_history(<<>>, g, AhList)
     IN  /\ s_game' = g
         /\ \E output \in Inferences(0) :
              LET e == expand_node((RootPath :> Node), RootPath,
                                   legal_actions(g), output)
              IN  tree' = backpropagate(e.tree, RootSearchPath, output.value,
                                        Discount)
         /\ s_lists' = ah.lists
         /\ action_history' = Some(ah.obj)
  /\ history' = None
  /\ node' = RootPath
  /\ search_path' = <<>>
  /\ s_done' = 0
  /\ s_pc' = "sim"
  /\ UNCHANGED <<s_num_sims, s_max_moves>>
  /\ UNCHANGED <<mainvars, tgvars>>

\* run_mcts, start of one simulation: history = action_history.clone();
\* node = root; search_path = [node]
SimulationStart ==
  /\ s_pc = "sim"
  /\ SimulationsLeft(s_done, s_num_sims)
  /\ LET c == clone(s_lists, s_game, action_history[1], SimList)
     IN  /\ s_lists' = c.lists
         /\ history' = Some(c.obj)
  /\ node' = RootPath
  /\ search_path' = <<RootPath>>
  /\ s_pc' = "descend"
  /\ UNCHANGED <<s_game, s_num_sims, s_max_moves, tree, action_history, s_done>>
  /\ UNCHANGED <<mainvars, tgvars>>

\* run_mcts, while node.expanded(): action, node = select_child(...);
\* history.add_action(action); search_path.append(node).  The child chosen
\* depends on priors and values: any child may be the one.
Descend ==
  /\ s_pc = "descend"
  /\ expanded(tree[node])
  /\ \E a \in tree[node].children :
       LET w == add_action(s_lists, s_game, history[1], a)
       IN  /\ s_lists' = w.lists
           /\ s_game' = w.game
           /\ node' = Append(node, a)
           /\ search_path' = Append(search_path, Append(node, a))
  /\ UNCHANGED <<s_pc, s_num_sims, s_max_moves, tree, action_history, history, s_done>>
  /\ UNCHANGED <<mainvars, tgvars>>

\* run_mcts, the leaf is reached: recurrent_inference, expand_node(node, ...,
\* history.action_space(), ...), backpropagate(search_path, ...)
ExpandLeaf ==
  /\ s_pc = "descend"
  /\ ~expanded(tree[node])
  /\ \E output \in Inferences(Len(node)) :
       LET e == expand_node(tree, node, action_space(history[1]), output)
       IN  IF e.failed
           THEN /\ s_pc' = "failed"
                /\ UNCHANGED <<tree, s_done>>
           ELSE /\ tree' = backpropagate(e.tree, search_path, output.value,
                                         Discount)
                /\ s_done' = s_done + 1
                /\ s_pc' = "sim"
  /\ UNCHANGED <<s_game, s_num_sims, s_max_moves, s_lists, action_history, history, node,
                 search_path>>
  /\ UNCHANGED <<mainvars, tgvars>>

\* run_mcts returns when its loop is over
RunMctsReturns ==
  /\ s_pc = "sim"
  /\ ~SimulationsLeft(s_done, s_num_sims)
  /\ s_pc' = "select"
  /\ UNCHANGED <<s_game, s_num_sims, s_max_moves, tree, s_lists, action_history, history,
                 node, search_path, s_done>>
  /\ UNCHANGED <<mainvars, tgvars>>

\* play_game: action = select_action(...); game.apply(action);
\* game.store_search_statistics(root)
SelectAndStore ==
  /\ s_pc = "select"
  /\ \E action \in select_action(RootView(tree)) :
       s_game' = store_search_statistics(apply(s_game, action, horizon),
                                         RootView(tree))
  /\ s_pc' = "root"
  /\ UNCHANGED <<s_num_sims, s_max_moves, tree, s_lists, action_history, history, node,
                 search_path, s_done>>
  /\ UNCHANGED <<mainvars, tgvars>>

\* play_game: the loop condition is false, return game
PlayGameReturns ==
  /\ s_pc = "root"
  /\ ~LoopCond(s_game, s_max_moves)
  /\ s_pc' = "returned"
  /\ UNCHANGED <<s_game, s_num_sims, s_max_moves, tree, s_lists, action_history, history,
                 node, search_path, s_done>>
  /\ UNCHANGED <<mainvars, tgvars>>

NextSearch ==
  \/ SearchRoot
  \/ SimulationStart
  \/ Descend
  \/ ExpandLeaf
  \/ RunMctsReturns
  \/ SelectAndStore
  \/ PlayGameReturns

SpecSearch == InitSearch /\ [][NextSearch]_vars

\* the sum of the visit counts of the root's children, counted on the tree
ChildVisits(tr) ==
  LET RECURSIVE Sum(_)
      Sum(S) == IF S = {} THEN 0
                ELSE LET a == CHOOSE x \in S : TRUE
                     IN  tr[<<a>>].visit_count + Sum(S \ {a})
  IN  Sum(tr[RootPath].children)

\* C12: when select_action is called the search has run exactly
\* num_simulations simulations: the visit counts of the root's children sum to
\* num_simulations and the root's own visit count is num_simulations + 1.
C12_ExactBudget ==
  s_pc = "select" =>
    /\ s_done = s_num_sims
    /\ ChildVisits(tree) = s_num_sims
    /\ tree[RootPath].visit_count = s_num_sims + 1

\* C12 witness: a search of two simulations on two actions is over, and both
\* simulations went through the same child
C12_SearchOver ==
  /\ s_pc = "select"
  /\ s_num_sims = 2
  /\ s_game.action_space_size = 2
  /\ \E a \in tree[RootPath].children : tree[<<a>>].visit_count = 2

\* C13: every node of the tree is unexpanded (no children, no hidden state)
\* or fully expanded (hidden state set, one child per legal action, each child
\* a node of the tree), and expand_node never meets an expanded node, which
\* would make it fail.
C13_UnexpandedOrFull ==
  /\ \A p \in DOMAIN tree :
       \/ /\ tree[p].children = {}
          /\ tree[p].hidden_state = None
       \/ /\ tree[p].hidden_state # None
          /\ tree[p].children = legal_actions(s_game)
          /\ Cardinality(tree[p].children) = s_game.action_space_size
          /\ \A a \in tree[p].children : Append(p, a) \in DOMAIN tree
  /\ s_pc # "failed"

\* C13 witness: in the middle of a search the tree holds an expanded node
\* below the root beside unexpanded ones
C13_ExpandedBelowRoot ==
  /\ s_pc = "descend"
  /\ s_game.action_space_size = 2
  /\ \E p \in DOMAIN tree : p # RootPath /\ expanded(tree[p])
  /\ \E p \in DOMAIN tree : ~expanded(tree[p])

(* ------------------- collaborator failures (src/muzero.py) ------------- *)
\* A failure path that still hands the unfinished game to the buffer
BufferWithFailedEpisode(b, w, g) == Append(b, g)

\* run_selfplay: an exception raised inside play_game leaves the loop before
\* replay_buffer.save_game(game) is reached: the buffer stays as it is
BufferAfterEpisodeError(b, w, g) == b

\* play_game raises in a self-play thread: network.initial_inference (after the
\* observation was fetched, or before) or the environment step of game.apply
\* (before anything is recorded) fails, and the thread ends with the exception
SelfPlayFails(p) ==
  /\ p \in Actors
  /\ pc[p] = "play"
  /\ net[p] # NoNet
  /\ PlayLoopCond(games[game[p]])
  /\ \/ games' = games
     \/ games' = [games EXCEPT ![game[p]] = ObservationFetched(@)]
  /\ buffer' = BufferAfterEpisodeError(buffer, window_size, game[p])
  /\ pc' = [pc EXCEPT ![p] = "dead"]
  /\ UNCHANGED <<window_size, batch_size, horizon, net, game, saved, storage,
                 published, networks, t_net, t_i, game_pos, batch>>
  /\ UNCHANGED <<tgvars, svars>>

\* update_weights raises: the model fails while the loss is computed (no
\* variable assigned yet) or while optimizer.minimize assigns the variables
\* (some assigned); train_network and muzero() end with the exception
TrainingFails ==
  /\ pc[0] \in {"update", "update2"}
  /\ pc' = [pc EXCEPT ![0] = "crashed"]
  /\ UNCHANGED <<window_size, batch_size, horizon, net, game, games, buffer, saved,
                 storage, published, networks, t_net, t_i, game_pos, batch>>
  /\ UNCHANGED <<tgvars, svars>>

NextFail ==
  \/ Next
  \/ \E p \in Actors : SelfPlayFails(p)
  \/ TrainingFails

SpecFail == Init /\ [][NextFail]_vars

\* C14: when play_game raises in a self-play thread, only that thread ends:
\* the step appends nothing to the buffer and leaves the buffer, the latest
\* snapshot, the network objects and every other process (its position, its
\* network, its game) as they were; and the game of a failed episode is never
\* in the buffer.
C14_FailureIsLocal ==
  [][\A p \in Actors :
       /\ (pc[p] = "play" /\ pc'[p] = "dead") =>
            /\ buffer' = buffer
            /\ saved' = saved
            /\ storage' = storage
            /\ published' = published
            /\ networks' = networks
            /\ <<t_net', t_i', game_pos', batch'>> = <<t_net, t_i, game_pos, batch>>
            /\ \A q \in Procs \ {p} :
                 /\ pc'[q] = pc[q]
                 /\ net'[q] = net[q]
                 /\ game'[q] = game[q]
                 /\ game[q] # NoGame => games'[game[q]] = games[game[q]]
            /\ \A i \in 1..Len(buffer) : games'[buffer[i]] = games[buffer[i]]
       /\ pc'[p] = "dead" =>
            /\ \A i \in 1..Len(buffer') : buffer'[i] # game'[p]
            /\ \A i \in 1..Len(saved') : saved'[i] # game'[p]]_vars

\* C14 witness: a self-play thread died in an episode after it had saved an
\* earlier game, the other thread went on saving games, and train_network ran
\* to its end
C14_RunSurvivesDeadWorker ==
  /\ pc[0] = "end"
  /\ \E p, q \in Actors :
       /\ pc[p] = "dead"
       /\ game[p][2] > 1
       /\ pc[q] # "dead"
       /\ game[q] # NoGame
       /\ game[q][2] > 2

\* C15: once update_weights has failed in the middle of a batch, nothing is
\* published any more, and the network that latest_network() hands to the
\* self-play threads is not a partially updated one (its two groups of
\* variables have received the same updates).
C15_NoPartialSnapshot ==
  [][pc'[0] = "crashed" =>
       /\ pc[0] = "crashed" => (published' = published /\ storage' = storage)
       /\ LET n == latest_network(storage')
          IN  n # NoNet => networks'[n].w1 = networks'[n].w2]_vars

\* the step keys train_network publishes inside its loop before iteration n:
\* the indices below n that are multiples of checkpoint_interval, in order
RECURSIVE LoopKeys(_)
LoopKeys(n) ==
  IF n = 0 THEN <<>>
  ELSE IF (n - 1) % CheckpointInterval = 0 THEN Append(LoopKeys(n - 1), n - 1)
  ELSE LoopKeys(n - 1)

\* C16: train_network runs training_steps iterations, each with one batch
\* sampled and one weight update applied (the network's step counter follows
\* the loop index); inside the loop it has published, after muzero()'s initial
\* step 0, exactly the indices that are multiples of checkpoint_interval; then
\* it publishes training_steps once and ends, training_steps being the key of
\* the last publish.
C16_BoundedLoop ==
  /\ pc[0] \in TrainerPcs =>
       /\ t_i <= TrainingSteps
       /\ networks[t_net].training_steps = t_i
       /\ networks[t_net].w2 = t_i
  /\ pc[0] = "ckpt" =>
       t_i < TrainingSteps /\ published = <<0>> \o LoopKeys(t_i)
  /\ pc[0] \in {"sample", "build", "update", "update2"} =>
       t_i < TrainingSteps /\ published = <<0>> \o LoopKeys(t_i + 1)
  /\ pc[0] = "update" => Len(batch) = batch_size /\ networks[t_net].w1 = t_i
  /\ pc[0] = "update2" => batch = <<>> /\ networks[t_net].w1 = t_i + 1
  /\ pc[0] = "final" =>
       t_i = TrainingSteps /\ published = <<0>> \o LoopKeys(TrainingSteps)
  /\ pc[0] = "end" =>
       /\ t_i = TrainingSteps
       /\ networks[t_net].w1 = TrainingSteps
       /\ published = (<<0>> \o LoopKeys(TrainingSteps)) \o <<TrainingSteps>>
       /\ published[Len(published)] = TrainingSteps

\* C16 witness: train_network has returned after an iteration that was not
\* preceded by a publish and a later one that was
C16_TrainingDone ==
  /\ pc[0] = "end"
  /\ networks[t_net].training_steps = TrainingSteps
  /\ \E i \in 1..(TrainingSteps - 1) : i \notin Range(published)
  /\ \E i \in 1..(TrainingSteps - 1) : i \in Range(published)

(* ------------------- sample_batch called alone (game.py) --------------- *)
\* the games in the buffer and the batch size when sample_batch is called alone
SampleGamesInBuffer == 2

SampleBatchSize == 2

\* play_game on g with the search choosing the actions acts in turn, every
\* simulation of a search going through the chosen child
RECURSIVE PlayedWith(_, _, _)
PlayedWith(g, acts, h) ==
  IF PlayLoopCond(g) /\ acts # <<>>
  THEN LET root == [visits |-> [a \in legal_actions(g) |->
                                  IF a = Head(acts) THEN NumSimulations ELSE 0],
                    value |-> CHOOSE v \in SearchValues : TRUE]
       IN  PlayedWith(store_search_statistics(
                        apply(ObservationFetched(g), Head(acts), h), root),
                      Tail(acts), h)
  ELSE g

\* a buffer of games played to their end on MaxActionSpace actions, and
\* train_network about to call sample_batch
InitSample ==
  /\ window_size = FillThreshold
  /\ batch_size = SampleBatchSize
  /\ horizon \in Horizons
  /\ pc = [p \in Procs |-> IF p = 0 THEN "sample" ELSE "idle"]
  /\ net = [p \in Procs |-> NoNet]
  /\ game = [p \in Procs |-> NoGame]
  /\ \E acts \in [1..SampleGamesInBuffer -> [1..MaxMoves -> 0..(MaxActionSpace - 1)]] :
       games = [id \in {<<0, n>> : n \in 1..SampleGamesInBuffer} |->
                  PlayedWith([NewGame(Discount) EXCEPT
                                !.action_space_size = MaxActionSpace],
                             acts[id[2]], horizon)]
  /\ buffer = [n \in 1..SampleGamesInBuffer |-> <<0, n>>]
  /\ saved = buffer
  /\ storage = EmptyStorage
  /\ published = <<>>
  /\ networks = (TheNet :> NewNetwork)
  /\ t_net = NoNet
  /\ t_i = 0
  /\ game_pos = <<>>
  /\ batch = <<>>
  /\ InitTg
  /\ InitNoSearch

NextSample ==
  \/ SampleGames
  \/ BuildBatch

SpecSample == InitSample /\ [][NextSample]_vars

\* C17: sample_batch on a non-empty buffer draws batch_size pairs (game,
\* position), each game one of the buffer (the same game may come twice) and
\* each position p with 0 <= p < len(history); from these it returns
\* batch_size items, item k holding the observation at p, the actions
\* history[p : p + num_unroll_steps] (at most num_unroll_steps of them) and
\* make_target's result for p.
C17_BatchItems ==
  [][/\ (pc[0] = "sample" /\ buffer # <<>>) =>
          /\ pc'[0] = "build"
          /\ Len(game_pos') = batch_size
          /\ \A k \in 1..Len(game_pos') :
               /\ \E i \in 1..Len(buffer) : buffer[i] = game_pos'[k][1]
               /\ 0 <= game_pos'[k][2]
               /\ game_pos'[k][2] < Len(games[game_pos'[k][1]].history)
     /\ pc[0] = "build" =>
          /\ Len(batch') = batch_size
          /\ \A k \in 1..Len(batch') :
               LET g == games[game_pos[k][1]]
                   p == game_pos[k][2]
                   n == Min(NumUnrollSteps, Len(g.history) - p)
               IN  /\ batch'[k].observation = g.observations[p + 1]
                   /\ Len(batch'[k].actions) <= NumUnrollSteps
                   /\ batch'[k].actions = [j \in 1..n |-> g.history[p + j]]
                   /\ batch'[k].target =
                        make_target(g, p, NumUnrollSteps, TdSteps)]_vars

\* C17 witness: sample_batch has drawn one game twice, at two positions, one
\* of them too close to the end of the history for num_unroll_steps actions
C17_SameGameTwice ==
  /\ pc[0] = "build"
  /\ Len(game_pos) = 2
  /\ game_pos[1][1] = game_pos[2][1]
  /\ game_pos[1][2] < game_pos[2][2]
  /\ Len(games[game_pos[2][1]].history) - game_pos[2][2] < NumUnrollSteps
  /\ \E a \in Range(games[game_pos[1][1]].history) : a # 0

\* C18: the move that play_game records as its i-th (i counted from 1 here)
\* is aligned over the lists: the search ran from observations[i], its
\* statistics become root_values[i] and child_visits[i], the action it selected
\* becomes history[i] and the reward of that action rewards[i].
C18_AlignedByIndex ==
  [][(s_pc = "select" /\ s_pc' = "root") =>
       LET i == Len(s_game.root_values) + 1
       IN  /\ Len(s_game.observations) = i
           /\ Len(s_game'.root_values) = i
           /\ s_game'.root_values[i] = node_value(tree[RootPath])
           /\ Len(s_game'.child_visits) = i
           /\ Len(s_game'.history) = i
           /\ s_game'.history[i] \in select_action(RootView(tree))
           /\ Len(s_game'.rewards) = i
           /\ s_game'.rewards[i] = EnvStep(s_game, horizon).reward]_vars

\* C19: the ActionHistory of game.action_history() and its clones hold lists
\* of their own: while a search runs no step changes the trajectory's history,
\* no step changes the list of the ActionHistory the clones are made from, and
\* add_action extends the list it writes by one element at its end, leaving the
\* elements before it and every other list as they were.
C19_CopiesIndependent ==
  [][/\ s_pc \in {"sim", "descend"} =>
          /\ s_game'.history = s_game.history
          /\ Deref(s_lists', s_game', action_history'[1].history) =
               Deref(s_lists, s_game, action_history[1].history)
          /\ action_history[1].history # GameList
     /\ s_pc = "descend" =>
          /\ history[1].history \notin {GameList, action_history[1].history}
          /\ \A r \in DOMAIN s_lists :
               /\ r \in DOMAIN s_lists'
               /\ Len(s_lists'[r]) \in {Len(s_lists[r]), Len(s_lists[r]) + 1}
               /\ SubSeq(s_lists'[r], 1, Len(s_lists[r])) = s_lists[r]
               /\ r # history[1].history => s_lists'[r] = s_lists[r]]_vars

\* C19 witness: in one simulation add_action has been called twice on the
\* clone of a non-empty history, and the game's ActionHistory still equals the
\* trajectory's history
C19_CloneExtended ==
  /\ s_pc = "descend"
  /\ s_game.history # <<>>
  /\ s_lists[AhList] = s_game.history
  /\ Len(s_lists[SimList]) = Len(s_game.history) + 2
  /\ SubSeq(s_lists[SimList], 1, Len(s_game.history)) = s_game.history

\* the sum of the numerators of a distribution of fractions
RECURSIVE SumNumerators(_)
SumNumerators(dist) ==
  IF dist = <<>> THEN 0 ELSE Head(dist)[1] + SumNumerators(Tail(dist))

\* C20: store_search_statistics appends one entry to child_visits and one to
\* root_values (root.value()) and leaves the earlier entries; the distribution
\* appended has one fraction per legal action, the child's visit count over the
\* sum of the visit counts of the root's children (0 for an action without a
\* child), and after a search of num_simulations >= 1 the fractions sum to 1:
\* the sum is positive and the numerators add up to it.
C20_StoredDistribution ==
  [][(s_pc = "select" /\ s_pc' = "root") =>
       LET root == tree[RootPath]
           sum == ChildVisits(tree)
           n == Len(s_game.child_visits)
           m == Len(s_game.root_values)
           dist == s_game'.child_visits[n + 1]
       IN  /\ Len(s_game'.child_visits) = n + 1
           /\ SubSeq(s_game'.child_visits, 1, n) = s_game.child_visits
           /\ Len(s_game'.root_values) = m + 1
           /\ SubSeq(s_game'.root_values, 1, m) = s_game.root_values
           /\ s_game'.root_values[m + 1] = node_value(root)
           /\ Len(dist) = s_game.action_space_size
           /\ \A a \in 0..(s_game.action_space_size - 1) :
                dist[a + 1] = IF a \in root.children
                              THEN <<tree[<<a>>].visit_count, sum>>
                              ELSE <<0, 1>>
           /\ s_num_sims >= 1 =>
                /\ sum > 0
                /\ SumNumerators(dist) = sum
                /\ \A k \in 1..Len(dist) : dist[k][2] = sum]_vars

\* C20 witness: two moves have been stored, the second after a search on two
\* actions that visited one child twice and the other never
C20_TwoStored ==
  /\ s_pc = "root"
  /\ Len(s_game.child_visits) = 2
  /\ Len(s_game.root_values) = 2
  /\ s_game.child_visits[2] \in {<<<<2, 2>>, <<0, 2>>>>, <<<<0, 2>>, <<2, 2>>>>}

\* the sum of the visit counts of the children of the node at path p
VisitsBelow(tr, p) ==
  LET RECURSIVE Sum(_)
      Sum(S) == IF S = {} THEN 0
                ELSE LET a == CHOOSE x \in S : TRUE
                     IN  tr[Append(p, a)].visit_count + Sum(S \ {a})
  IN  Sum(tr[p].children)

\* C21: after the root initialisation and after every simulation, every
\* expanded node has visit_count = 1 + the sum of its children's visit counts
\* and every unexpanded node has visit_count 0; and the back-propagation of a
\* simulation adds one visit to each node of the search path and none to any
\* other node (the nodes it has just created have none).
C21_VisitCounts ==
  [][/\ \A p \in DOMAIN tree' :
          IF tree'[p].children # {}
          THEN tree'[p].visit_count = 1 + VisitsBelow(tree', p)
          ELSE tree'[p].visit_count = 0
     /\ (s_pc = "descend" /\ s_pc' = "sim") =>
          \A p \in DOMAIN tree' :
            tree'[p].visit_count =
              (IF p \in DOMAIN tree THEN tree[p].visit_count ELSE 0)
              + (IF \E k \in 1..Len(search_path) : search_path[k] = p
                 THEN 1 ELSE 0)]_vars

\* C21 witness: two simulations are done and the second went through the
\* node the first one expanded, which now has two visits and a visited child
C21_VisitedTwiceBelowRoot ==
  /\ s_pc = "sim"
  /\ s_done = 2
  /\ \E p \in DOMAIN tree :
       /\ p # RootPath
       /\ tree[p].visit_count = 2
       /\ \E a \in tree[p].children : tree[Append(p, a)].visit_count = 1

(* ------------------- play_game run to its end (muzero.py) -------------- *)
\* play_game runs in one thread that keeps executing its next statement
SpecPlay == InitSearch /\ [][NextSearch]_vars /\ WF_vars(NextSearch)

\* C22: play_game terminates; the trajectory it returns has at most max_moves
\* recorded moves (entries of history); every iteration of its loop stores one
\* search and applies one action; and once the environment has reported done
\* nothing more is applied.
C22_TerminatesWithinMaxMoves ==
  /\ <>(s_pc = "returned")
  /\ [](s_pc = "returned" =>
          /\ Len(s_game.history) <= s_max_moves
          /\ Len(s_game.root_values) <= s_max_moves)
  /\ [][/\ (s_pc = "select" /\ s_pc' = "root") =>
             /\ Len(s_game'.root_values) = Len(s_game.root_values) + 1
             /\ Len(s_game'.history) = Len(s_game.history) + 1
             /\ ~s_game.done
        /\ s_game.done =>
             /\ s_game'.history = s_game.history
             /\ s_game'.rewards = s_game.rewards
             /\ s_game'.observations = s_game.observations]_vars

(* --------------- muzero() up to train_network, fair threads ------------ *)
\* the steps of one self-play loop: run_selfplay in a thread, run_selfplay_once
\* in the main thread
WorkerStep(p) == FetchNetwork(p) \/ PlayMove(p) \/ save_game(p)

\* the steps of the main thread of muzero() up to its call of train_network
MainStep == WorkerStep(0) \/ SaveNetwork0 \/ StartActor \/ StartTraining

NextWait ==
  \/ MainStep
  \/ \E p \in Actors : WorkerStep(p)

\* every thread that can take a step eventually takes one
SpecWait ==
  /\ Init
  /\ [][NextWait]_vars
  /\ WF_vars(MainStep)
  /\ \A p \in Actors : WF_vars(WorkerStep(p))

\* C23 as stated: whatever the window size (1 or more), the main thread that
\* waits for the buffer to fill eventually starts train_network.
C23_WaitEnds == (pc[0] = "wait") ~> (pc[0] \in TrainerPcs)

\* C23 amended: when the window size is at least the fill level 10 that
\* muzero() waits for, the main thread that waits for the buffer to fill
\* eventually starts train_network.
C23_WaitEndsWhenWindowFits ==
  (pc[0] = "wait" /\ ~(window_size < 10)) ~> (pc[0] \in TrainerPcs)

\* C23 witness: the main thread has waited on a buffer not yet full, the
\* self-play threads have filled it and train_network has started
C23_TrainingStarted ==
  /\ pc[0] \in TrainerPcs
  /\ t_i = 0
  /\ ~(window_size < 10)
  /\ Len(buffer) = 10
  /\ \A p \in Actors : \E i \in 1..Len(buffer) : buffer[i][1] = p

====
